---- MODULE Spec2Model ----
(***************************************************************************)
(* A model of src/lib/index.js: the BitArray class (a fixed-length bit     *)
(* vector packed into the words of a Uint32Array).                         *)
(*                                                                         *)
(* JavaScript values.  An integer-valued Number is a two's complement      *)
(* integer of NumBits bits, held as NumLimbs limbs of HalfBits bits each,  *)
(* least significant limb first: <<65535, 65535, 0, 0>> is 0xFFFFFFFF and  *)
(* <<65535, 65535, 65535, 65535>> is -1.  The arithmetic below is exact    *)
(* modulo 2^NumBits and agrees with the arithmetic of Numbers as long as   *)
(* no value reaches 2^53 in magnitude; the largest value the class         *)
(* computes is the product in weight(), which stays below 2^52.  NaN is    *)
(* the limbless Number <<>>.  Small integers that are only compared, added *)
(* and divided (lengths, indices, shift amounts, radixes) are TLA+         *)
(* integers.                                                               *)
(***************************************************************************)
EXTENDS Integers, Sequences, FiniteSets

\* const INT_LENGTH = 32
INT_LENGTH == 32

\* The width of an element of a Uint32Array and of the operands of the
\* bitwise operators of the language.
WordBits == 32

NumBits == 2 * WordBits

HalfBits == WordBits \div 2

ByteBits == HalfBits \div 2

NumLimbs == NumBits \div HalfBits

Base == 2 ^ HalfBits

NaN == <<>>

Fill(b, n) == [k \in 1..n |-> b] \o <<>>

Zero == Fill(0, NumLimbs)

\* The Number of a TLA+ integer n.
FromInt(n) ==
    LET sign == IF n < 0 THEN Base - 1 ELSE 0
    IN  <<n % Base, (n \div Base) % Base, sign, sign>>

\* ToInt32: the low 32 bits, read as a signed value.
ToInt32(x) ==
    IF x = NaN THEN Zero
    ELSE LET sign == IF x[2] >= Base \div 2 THEN Base - 1 ELSE 0
         IN  <<x[1], x[2], sign, sign>>

\* ToUint32: the low 32 bits, read as an unsigned value.
ToUint32(x) ==
    IF x = NaN THEN Zero ELSE <<x[1], x[2], 0, 0>>

\* The bitwise operators on two limbs, one bit at a time.
RECURSIVE AndLimb(_, _)
AndLimb(p, q) ==
    IF p = 0 \/ q = 0 THEN 0
    ELSE ((p % 2) * (q % 2)) + 2 * AndLimb(p \div 2, q \div 2)

RECURSIVE OrLimb(_, _)
OrLimb(p, q) ==
    IF p = 0 THEN q
    ELSE IF q = 0 THEN p
    ELSE (IF (p % 2) + (q % 2) > 0 THEN 1 ELSE 0) + 2 * OrLimb(p \div 2, q \div 2)

RECURSIVE XorLimb(_, _)
XorLimb(p, q) ==
    IF p = 0 THEN q
    ELSE IF q = 0 THEN p
    ELSE (((p % 2) + (q % 2)) % 2) + 2 * XorLimb(p \div 2, q \div 2)

\* a & b
BitAnd(a, b) ==
    LET x == ToInt32(a)
        y == ToInt32(b)
    IN  ToInt32(<<AndLimb(x[1], y[1]), AndLimb(x[2], y[2]), 0, 0>>)

\* a | b
BitOr(a, b) ==
    LET x == ToInt32(a)
        y == ToInt32(b)
    IN  ToInt32(<<OrLimb(x[1], y[1]), OrLimb(x[2], y[2]), 0, 0>>)

\* a ^ b
BitXor(a, b) ==
    LET x == ToInt32(a)
        y == ToInt32(b)
    IN  ToInt32(<<XorLimb(x[1], y[1]), XorLimb(x[2], y[2]), 0, 0>>)

\* ~a
BitNot(a) ==
    LET x == ToInt32(a)
    IN  ToInt32(<<Base - 1 - x[1], Base - 1 - x[2], 0, 0>>)

\* a << n: the shift count is taken modulo 32, the result is an int32.
Shl(a, n) ==
    LET x == ToInt32(a)
        s == n % WordBits
        t == s % HalfBits
        lo == x[1] * (2 ^ t)
        hi == (x[2] * (2 ^ t)) + (lo \div Base)
    IN  ToInt32(IF s >= HalfBits THEN <<0, lo % Base, 0, 0>>
                ELSE <<lo % Base, hi % Base, 0, 0>>)

\* The two low limbs of x moved down by s bits, s in 0 .. 31, the s
\* vacated bits at the top being the bit fill.
ShiftRight(x, s, fill) ==
    LET t == s % HalfBits
        top == fill * ((2 ^ t) - 1) * (2 ^ (HalfBits - t))
        lo == (x[1] \div (2 ^ t)) + ((x[2] % (2 ^ t)) * (2 ^ (HalfBits - t)))
        hi == (x[2] \div (2 ^ t)) + top
    IN  IF s >= HalfBits THEN <<hi, fill * (Base - 1), 0, 0>>
        ELSE <<lo, hi, 0, 0>>

\* a >> n: sign-propagating, the result is an int32.
Sar(a, n) ==
    LET x == ToInt32(a)
    IN  ToInt32(ShiftRight(x, n % WordBits, x[2] \div (Base \div 2)))

\* Shr with >> written for >>>.
ShrSigned(a, n) == Sar(a, n)

\* a >>> n: zero-filling, the result is a uint32.
Shr(a, n) == ToUint32(ShiftRight(ToUint32(a), n % WordBits, 0))

RECURSIVE AddLimbs(_, _, _, _)
AddLimbs(a, b, j, carry) ==
    IF j > NumLimbs THEN <<>>
    ELSE LET s == a[j] + b[j] + carry
         IN  <<s % Base>> \o AddLimbs(a, b, j + 1, s \div Base)

\* a + b
Add(a, b) == AddLimbs(a, b, 1, 0)

\* a - b
Sub(a, b) == AddLimbs(a, [j \in 1..NumLimbs |-> Base - 1 - b[j]], 1, 1)

\* a * c for a TLA+ integer c in 0 .. 2^ByteBits - 1
RECURSIVE MulLimbs(_, _, _, _)
MulLimbs(a, c, j, carry) ==
    IF j > NumLimbs THEN <<>>
    ELSE LET t == a[j] * c + carry
         IN  <<t % Base>> \o MulLimbs(a, c, j + 1, t \div Base)

\* a * 2^n, for n a multiple of ByteBits in 0 .. NumBits - 1
Scale(a, n) ==
    LET m == MulLimbs(a, 2 ^ (n % HalfBits), 1, 0)
        up == n \div HalfBits
    IN  [j \in 1..NumLimbs |-> IF j > up THEN m[j - up] ELSE 0] \o <<>>

\* a * b, one byte of b at a time
RECURSIVE MulBytes(_, _, _)
MulBytes(a, b, i) ==
    IF i * ByteBits >= NumBits THEN Zero
    ELSE LET byte == (b[((i * ByteBits) \div HalfBits) + 1]
                          \div (2 ^ ((i * ByteBits) % HalfBits))) % (2 ^ ByteBits)
         IN  IF byte = 0 THEN MulBytes(a, b, i + 1)
             ELSE Add(Scale(MulLimbs(a, byte, 1, 0), i * ByteBits),
                      MulBytes(a, b, i + 1))

Mul(a, b) == MulBytes(a, b, 0)

\* Math.ceil(a / b) for b > 0
CeilDiv(a, b) == -((-a) \div b)

\* a / b >> 0: the quotient truncated toward zero, for b > 0
TruncDiv(a, b) == IF a >= 0 THEN a \div b ELSE -((-a) \div b)


(***************************************************************************)
(* Strings are sequences of one-character strings.                         *)
(***************************************************************************)
Digits ==
    <<"0", "1", "2", "3", "4", "5", "6", "7", "8", "9", "a", "b", "c", "d",
      "e", "f", "g", "h", "i", "j", "k", "l", "m", "n", "o", "p", "q", "r",
      "s", "t", "u", "v", "w", "x", "y", "z">>

\* A Number in 0 .. 2^32 - 1 as the pair of its 16-bit halves, and back.
\* The conversions between numbers and digit strings compute on the pair.
ToPair(x) == [hi |-> x[2], lo |-> x[1]]

FromPair(hi, lo) == <<lo, hi % Base, hi \div Base, 0>>

RECURSIVE DigitsOf(_, _, _)
DigitsOf(hi, lo, radix) ==
    IF hi = 0 /\ lo = 0 THEN <<>>
    ELSE LET t == (hi % radix) * Base + lo
         IN  Append(DigitsOf(hi \div radix, t \div radix, radix),
                    Digits[(t % radix) + 1])

\* num.toString(radix) of an integer num in 0 .. 2^32 - 1
NumberToString(x, radix) ==
    IF x = Zero THEN <<"0">> ELSE DigitsOf(ToPair(x).hi, ToPair(x).lo, radix)

\* str.padStart(n, '0')
padStart(str, n) ==
    IF Len(str) >= n THEN str ELSE Fill("0", n - Len(str)) \o str

\* str.split(' '): the tokens between the spaces; the empty string gives one
\* empty token.
RECURSIVE split(_)
split(str) ==
    IF \A k \in 1..Len(str) : str[k] # " " THEN <<str>>
    ELSE LET p == CHOOSE k \in 1..Len(str) :
                      str[k] = " " /\ \A j \in 1..(k - 1) : str[j] # " "
         IN  <<SubSeq(str, 1, p - 1)>> \o split(SubSeq(str, p + 1, Len(str)))

\* tokens.join(' ')
RECURSIVE join(_)
join(tokens) ==
    IF Len(tokens) = 0 THEN <<>>
    ELSE IF Len(tokens) = 1 THEN tokens[1]
    ELSE tokens[1] \o <<" ">> \o join(Tail(tokens))

reverse(seq) == [k \in 1..Len(seq) |-> seq[Len(seq) + 1 - k]] \o <<>>

\* The value of a character as a digit; 36 for a character that is none.
DigitValue(c) ==
    IF \E d \in 1..Len(Digits) : Digits[d] = c
    THEN (CHOOSE d \in 1..Len(Digits) : Digits[d] = c) - 1
    ELSE Len(Digits)

\* parseInt(word, radix) of a word without leading white space, sign or
\* 0x prefix (toString writes none): the value of the longest prefix of
\* digits of the radix, NaN when that prefix is empty.
RECURSIVE ParseDigits(_, _, _, _, _)
ParseDigits(word, radix, k, hi, lo) ==
    IF k > Len(word) \/ DigitValue(word[k]) >= radix THEN FromPair(hi, lo)
    ELSE LET t == lo * radix + DigitValue(word[k])
         IN  ParseDigits(word, radix, k + 1,
                         hi * radix + t \div Base, t % Base)

parseInt(word, radix) ==
    IF Len(word) = 0 \/ DigitValue(word[1]) >= radix THEN NaN
    ELSE ParseDigits(word, radix, 1, 0, 0)

(***************************************************************************)
(* The class.  An instance is a record [length, wordsArray]; wordsArray is *)
(* the sequence of the Numbers the Uint32Array holds, element i of the     *)
(* array being element i + 1 of the sequence.  A method is an operator     *)
(* from the instance and the arguments to the instance as the call leaves  *)
(* it (obj) and the outcome of the call (ret): the value returned, or the  *)
(* error thrown.  The strings the code throws are named by their kind.     *)
(***************************************************************************)
Return(v) == [kind |-> "return", error |-> "", value |-> v]

Throw(e) == [kind |-> "throw", error |-> e, value |-> "none"]

\* Arguments of the constructor: integers, and values that are no integers.
JsInt(n) == [type |-> "number", n |-> n, frac |-> 0]

\* Number.isInteger(base)
IsInteger(base) == base.type = "number" /\ base.frac = 0

\* arr[i]
Uint32ArrayGet(arr, i) == arr[i + 1]

\* Uint32ArraySet on a plain array, which converts nothing.
PlainArraySet(arr, i, v) == [arr EXCEPT ![i + 1] = v]

\* arr[i] = v: the value is converted to an unsigned 32-bit integer.
Uint32ArraySet(arr, i, v) == [arr EXCEPT ![i + 1] = ToUint32(v)]

\* constructor(base): new holds the instance, or nothing when it threw.
\* new Uint32Array(n) throws a RangeError for n < 0 (n = -0 is 0).
constructor(base) ==
    IF ~IsInteger(base)
    THEN [new |-> <<>>, ret |-> Throw("InvalidLength")]
    ELSE LET n == CeilDiv(base.n, INT_LENGTH)
         IN  IF n < 0
             THEN [new |-> <<>>, ret |-> Throw("RangeError")]
             ELSE [new |-> <<[length |-> base.n,
                              wordsArray |-> Fill(Zero, n)]>>,
                   ret |-> Return("new")]

\* bitsGetter: this.bits[index]
bitsGetter(ba, index) ==
    IF index < 0 \/ index > ba.length - 1
    THEN [obj |-> ba, ret |-> Throw("IndexOutOfRange")]
    ELSE LET wordsOffset == TruncDiv(index, INT_LENGTH)
             bitsOffset == index - wordsOffset * INT_LENGTH
         IN  [obj |-> ba,
              ret |-> Return(BitAnd(Uint32ArrayGet(ba.wordsArray, wordsOffset),
                                    Shl(FromInt(1), bitsOffset)) # Zero)]

\* bitsSetter with ^= mask written for &= ~mask.
bitsSetterToggle(ba, index, value) ==
    IF index < 0 \/ index > ba.length - 1
    THEN [obj |-> ba, ret |-> Throw("IndexOutOfRange")]
    ELSE LET wordsOffset == TruncDiv(index, INT_LENGTH)
             bitsOffset == index - wordsOffset * INT_LENGTH
             word == Uint32ArrayGet(ba.wordsArray, wordsOffset)
             mask == Shl(FromInt(1), bitsOffset)
         IN  [obj |-> [ba EXCEPT !.wordsArray =
                          Uint32ArraySet(ba.wordsArray, wordsOffset,
                              IF value THEN BitOr(word, mask)
                              ELSE BitXor(word, mask))],
              ret |-> Return("undefined")]

\* bitsSetter: this.bits[index] = value
bitsSetter(ba, index, value) ==
    IF index < 0 \/ index > ba.length - 1
    THEN [obj |-> ba, ret |-> Throw("IndexOutOfRange")]
    ELSE LET wordsOffset == TruncDiv(index, INT_LENGTH)
             bitsOffset == index - wordsOffset * INT_LENGTH
             word == Uint32ArrayGet(ba.wordsArray, wordsOffset)
             mask == Shl(FromInt(1), bitsOffset)
         IN  [obj |-> [ba EXCEPT !.wordsArray =
                          Uint32ArraySet(ba.wordsArray, wordsOffset,
                              IF value THEN BitOr(word, mask)
                              ELSE BitAnd(word, BitNot(mask)))],
              ret |-> Return("undefined")]

\* newValueArray.forEach((int, index) => this.wordsArray[index] = int)
RECURSIVE setValueLoop(_, _, _)
setValueLoop(wordsArray, newValueArray, index) ==
    IF index >= Len(newValueArray) THEN wordsArray
    ELSE setValueLoop(Uint32ArraySet(wordsArray, index, newValueArray[index + 1]),
                      newValueArray, index + 1)

\* setValue with the words written before the lengths are compared.
setValueThenCheck(ba, newValueArray) ==
    LET n == IF Len(newValueArray) < Len(ba.wordsArray)
             THEN Len(newValueArray) ELSE Len(ba.wordsArray)
        written == [ba EXCEPT !.wordsArray =
                       setValueLoop(ba.wordsArray, SubSeq(newValueArray, 1, n), 0)]
    IN  IF Len(newValueArray) # Len(ba.wordsArray)
        THEN [obj |-> written, ret |-> Throw("LengthMismatch")]
        ELSE [obj |-> written, ret |-> Return("undefined")]

setValue(ba, newValueArray) ==
    IF Len(newValueArray) # Len(ba.wordsArray)
    THEN [obj |-> ba, ret |-> Throw("LengthMismatch")]
    ELSE [obj |-> [ba EXCEPT !.wordsArray =
                      setValueLoop(ba.wordsArray, newValueArray, 0)],
          ret |-> Return("undefined")]

\* Math.ceil(INT_LENGTH * Math.log(2) / Math.log(radix)): the least w with
\* radix^w >= 2^32, which is the number of digits of 2^32 - 1 in the radix.
padTargetLength(radix) ==
    Len(NumberToString(ToUint32(FromInt(-1)), radix))

toString(ba, radix) ==
    LET res == [k \in 1..Len(ba.wordsArray) |->
                   padStart(NumberToString(ba.wordsArray[k], radix),
                            padTargetLength(radix))] \o <<>>
    IN  [obj |-> ba, ret |-> Return(join(reverse(res)))]

Mask55555555 == 1431655765
Mask33333333 == 858993459
MaskF0F0F0F == 252645135
Mult01010101 == 16843009

\* weightOfWord without int &= 0xF0F0F0F.
weightOfWordUnmasked(word) ==
    LET int1 == Sub(word, BitAnd(Sar(word, 1), FromInt(Mask55555555)))
        int2 == Add(BitAnd(int1, FromInt(Mask33333333)),
                    BitAnd(Sar(int1, 2), FromInt(Mask33333333)))
        int3 == Add(int2, Sar(int2, 4))
    IN  Sar(Mul(int3, FromInt(Mult01010101)), 24)

\* The body of the callback of weight(): what one word adds to the weight.
weightOfWord(word) ==
    LET int1 == Sub(word, BitAnd(Sar(word, 1), FromInt(Mask55555555)))
        int2 == Add(BitAnd(int1, FromInt(Mask33333333)),
                    BitAnd(Sar(int1, 2), FromInt(Mask33333333)))
        int3 == Add(int2, Sar(int2, 4))
        int4 == BitAnd(int3, FromInt(MaskF0F0F0F))
    IN  Sar(Mul(int4, FromInt(Mult01010101)), 24)

RECURSIVE weightLoop(_, _, _)
weightLoop(wordsArray, index, w) ==
    IF index >= Len(wordsArray) THEN w
    ELSE weightLoop(wordsArray, index + 1,
                    Add(w, weightOfWord(Uint32ArrayGet(wordsArray, index))))

weight(ba) ==
    [obj |-> ba, ret |-> Return(weightLoop(ba.wordsArray, 0, Zero))]

\* leftShiftLoop without the test of bitsOffset: for bitsOffset = 0 the
\* carry is shifted by 32, which shifts by 0.
RECURSIVE leftShiftLoopUnguarded(_, _, _, _)
leftShiftLoopUnguarded(wordsArray, index, wordsOffset, bitsOffset) ==
    IF index < 0 THEN wordsArray
    ELSE LET w1 == Uint32ArraySet(wordsArray, index,
                       IF index - wordsOffset >= 0
                       THEN Uint32ArrayGet(wordsArray, index - wordsOffset)
                       ELSE Zero)
             w2 == Uint32ArraySet(w1, index,
                       Shl(Uint32ArrayGet(w1, index), bitsOffset))
             w3 == IF index - wordsOffset - 1 >= 0
                   THEN Uint32ArraySet(w2, index,
                            BitOr(Uint32ArrayGet(w2, index),
                                  Shr(Uint32ArrayGet(w2, index - wordsOffset - 1),
                                      INT_LENGTH - bitsOffset)))
                   ELSE w2
         IN  leftShiftLoopUnguarded(w3, index - 1, wordsOffset, bitsOffset)

\* while (--index >= 0) { ... }: the array is rewritten in place, from the
\* last word down.
RECURSIVE leftShiftLoop(_, _, _, _)
leftShiftLoop(wordsArray, index, wordsOffset, bitsOffset) ==
    IF index < 0 THEN wordsArray
    ELSE LET w1 == Uint32ArraySet(wordsArray, index,
                       IF index - wordsOffset >= 0
                       THEN Uint32ArrayGet(wordsArray, index - wordsOffset)
                       ELSE Zero)
             w2 == Uint32ArraySet(w1, index,
                       Shl(Uint32ArrayGet(w1, index), bitsOffset))
             w3 == IF bitsOffset # 0 /\ index - wordsOffset - 1 >= 0
                   THEN Uint32ArraySet(w2, index,
                            BitOr(Uint32ArrayGet(w2, index),
                                  Shr(Uint32ArrayGet(w2, index - wordsOffset - 1),
                                      INT_LENGTH - bitsOffset)))
                   ELSE w2
         IN  leftShiftLoop(w3, index - 1, wordsOffset, bitsOffset)

leftShift(ba, value) ==
    IF value > Len(ba.wordsArray) * INT_LENGTH - 1
    THEN [obj |-> ba, ret |-> Throw("ShiftOverflow")]
    ELSE LET wordsOffset == TruncDiv(value, INT_LENGTH)
             bitsOffset == value - wordsOffset * INT_LENGTH
         IN  [obj |-> [ba EXCEPT !.wordsArray =
                          leftShiftLoop(ba.wordsArray, Len(ba.wordsArray) - 1,
                                        wordsOffset, bitsOffset)],
              ret |-> Return("this")]

\* this.wordsArray.forEach((int, index, arr) => arr[index] = ~int)
RECURSIVE notLoop(_, _)
notLoop(arr, index) ==
    IF index >= Len(arr) THEN arr
    ELSE notLoop(Uint32ArraySet(arr, index, BitNot(Uint32ArrayGet(arr, index))),
                 index + 1)

\* not with the bits beyond length left as they are.
notMasked(ba) ==
    [obj |-> [ba EXCEPT !.wordsArray =
                 [i \in 1..Len(ba.wordsArray) |->
                     LET n == ba.length - (i - 1) * INT_LENGTH
                         mask == IF n >= INT_LENGTH THEN FromInt(-1)
                                 ELSE Sub(Shl(FromInt(1), n), FromInt(1))
                     IN  ToUint32(BitXor(ba.wordsArray[i], mask))] \o <<>>],
     ret |-> Return("this")]

not(ba) ==
    [obj |-> [ba EXCEPT !.wordsArray = notLoop(ba.wordsArray, 0)],
     ret |-> Return("this")]

\* and, or, xor: arg is the argument as the call leaves it.  The callback
\* writes arr, the receiver's array, only.
RECURSIVE andLoop(_, _, _)
andLoop(arr, argWords, index) ==
    IF index >= Len(arr) THEN arr
    ELSE andLoop(Uint32ArraySet(arr, index,
                     BitAnd(Uint32ArrayGet(arr, index),
                            Uint32ArrayGet(argWords, index))),
                 argWords, index + 1)

\* and with the lengths compared, not the numbers of words.
andSameLength(ba, bitArray) ==
    IF ba.length # bitArray.length
    THEN [obj |-> ba, arg |-> bitArray, ret |-> Throw("LengthMismatch")]
    ELSE [obj |-> [ba EXCEPT !.wordsArray =
                      andLoop(ba.wordsArray, bitArray.wordsArray, 0)],
          arg |-> bitArray, ret |-> Return("this")]

and(ba, bitArray) ==
    IF Len(ba.wordsArray) # Len(bitArray.wordsArray)
    THEN [obj |-> ba, arg |-> bitArray, ret |-> Throw("LengthMismatch")]
    ELSE [obj |-> [ba EXCEPT !.wordsArray =
                      andLoop(ba.wordsArray, bitArray.wordsArray, 0)],
          arg |-> bitArray, ret |-> Return("this")]

RECURSIVE orLoop(_, _, _)
orLoop(arr, argWords, index) ==
    IF index >= Len(arr) THEN arr
    ELSE orLoop(Uint32ArraySet(arr, index,
                    BitOr(Uint32ArrayGet(arr, index),
                          Uint32ArrayGet(argWords, index))),
                argWords, index + 1)

or(ba, bitArray) ==
    IF Len(ba.wordsArray) # Len(bitArray.wordsArray)
    THEN [obj |-> ba, arg |-> bitArray, ret |-> Throw("LengthMismatch")]
    ELSE [obj |-> [ba EXCEPT !.wordsArray =
                      orLoop(ba.wordsArray, bitArray.wordsArray, 0)],
          arg |-> bitArray, ret |-> Return("this")]

RECURSIVE xorLoop(_, _, _)
xorLoop(arr, argWords, index) ==
    IF index >= Len(arr) THEN arr
    ELSE xorLoop(Uint32ArraySet(arr, index,
                     BitXor(Uint32ArrayGet(arr, index),
                            Uint32ArrayGet(argWords, index))),
                 argWords, index + 1)

xor(ba, bitArray) ==
    IF Len(ba.wordsArray) # Len(bitArray.wordsArray)
    THEN [obj |-> ba, arg |-> bitArray, ret |-> Throw("LengthMismatch")]
    ELSE [obj |-> [ba EXCEPT !.wordsArray =
                      xorLoop(ba.wordsArray, bitArray.wordsArray, 0)],
          arg |-> bitArray, ret |-> Return("this")]

\* static parse(serializedBitArray, radix)
parse(serializedBitArray, radix) ==
    LET tokens == reverse(split(serializedBitArray))
        wordsArray == [k \in 1..Len(tokens) |-> parseInt(tokens[k], radix)] \o <<>>
        made == constructor(JsInt(Len(wordsArray) * INT_LENGTH))
    IN  IF made.ret.kind = "throw" THEN made
        ELSE LET loaded == setValue(made.new[1], wordsArray)
             IN  IF loaded.ret.kind = "throw"
                 THEN [new |-> <<>>, ret |-> loaded.ret]
                 ELSE [new |-> <<loaded.obj>>, ret |-> Return("new")]

(***************************************************************************)
(* The state machine: a program that constructs an instance and calls its  *)
(* methods.                                                                *)
(***************************************************************************)
VARIABLES
    objs,   \* the instances: objs[1] is the receiver of the calls (none
            \* before the constructor has returned), objs[2], when present,
            \* is the argument of the last and/or/xor, or what parse returned
    given,  \* the argument of the constructor call that made objs[1]
    call,   \* the last call: its operation and arguments
    pre,    \* objs as the last call found it
    ret,    \* the outcome of the last call
    steps   \* the number of mutating calls that returned

vars == <<objs, given, call, pre, ret, steps>>

\* The number of mutating calls of a run.
MaxSteps == 2

\* toString(radix = 36), parse(serializedBitArray, radix = 36)
DefaultRadix == 36

\* The radixes Number.prototype.toString accepts.
Radixes == 2..Len(Digits)

NotInteger ==
    {[type |-> "number", n |-> 1, frac |-> 5],
     [type |-> "string", n |-> 8, frac |-> 0],
     [type |-> "undefined", n |-> 0, frac |-> 0]}

Bases == {JsInt(n) : n \in {-33, -32, -1, 0, 8, 32, 40}} \union NotInteger

Indices == {-1, 0, 7, 31, 32, 39, 40}

GetIndices == {-1, 0, 39}

ShiftValues == {0, 1, 31, 32, 33, 63, 64}

\* Elements of the arrays given to setValue: 0, 0x80000001, 0xFFFFFFFF
\* and -1.
ValueSamples ==
    {Zero, FromPair(32768, 1), FromPair(65535, 65535), FromInt(-1)}

\* The arrays of n elements.
ArraysOf(n) ==
    IF n < 0 THEN {}
    ELSE IF n = 0 THEN {<<>>}
    ELSE IF n = 1 THEN {<<v>> : v \in ValueSamples}
    ELSE IF n = 2 THEN {<<v, w>> : v, w \in ValueSamples}
    ELSE {Fill(FromInt(1), n)}

\* The arrays given to the setValue of an instance of n words: those of n
\* elements, one that is shorter and one that is longer.
ArraySamples(n) ==
    ArraysOf(n) \union {Fill(FromInt(1), n + 1)}
                \union (IF n > 0 THEN {Fill(FromInt(1), n - 1)} ELSE {})

\* The arguments of and, or and xor: instances of 16 and 64 bits, loaded
\* by setValue with 0xF0, 0xFFFFFFFF, 0xAAAA5555.
OperandWords == {FromInt(240), FromPair(65535, 65535), FromPair(43690, 21845)}

Operands ==
    {setValue(constructor(JsInt(16)).new[1], <<v>>).obj : v \in OperandWords}
    \union {setValue(constructor(JsInt(64)).new[1], <<v, w>>).obj :
               v \in OperandWords, w \in {FromInt(255)}}

Init ==
    /\ objs = <<>>
    /\ given = JsInt(0)
    /\ call = [op |-> "none", args |-> <<>>]
    /\ pre = <<>>
    /\ ret = Return("none")
    /\ steps = 0

\* The calls that only read.
Reads == {"get", "weight", "toString"}

\* A run goes on after a call that returned and changed something.  A call
\* that threw, or one that only reads, leaves objs as it found it
\* (C5_RejectedCallChangesNothing and C8_LengthAndWordsInvariant state it),
\* so that what could follow it follows the state before it as well: the
\* run stops there.
Live == ret.kind = "return" /\ call.op \notin Reads

\* new BitArray(base)
Construct(base) ==
    /\ Live
    /\ Len(objs) = 0
    /\ LET out == constructor(base)
       IN  /\ objs' = out.new
           /\ ret' = out.ret
    /\ given' = base
    /\ call' = [op |-> "constructor", args |-> <<base>>]
    /\ pre' = objs
    /\ UNCHANGED steps

\* A call of a method of objs[1] that takes no instance as argument.
Method(op, args, out, mutating) ==
    /\ Live
    /\ Len(objs) >= 1
    /\ mutating => steps < MaxSteps
    /\ objs' = <<out.obj>>
    /\ ret' = out.ret
    /\ call' = [op |-> op, args |-> args]
    /\ pre' = objs
    /\ steps' = IF mutating /\ out.ret.kind = "return" THEN steps + 1 ELSE steps
    /\ UNCHANGED given

Get(index) == Method("get", <<index>>, bitsGetter(objs[1], index), FALSE)

Set(index, value) ==
    Method("set", <<index, value>>, bitsSetter(objs[1], index, value), TRUE)

SetValue(newValueArray) ==
    Method("setValue", <<newValueArray>>, setValue(objs[1], newValueArray), TRUE)

Weight == Method("weight", <<>>, weight(objs[1]), FALSE)

ToString(radix) == Method("toString", <<radix>>, toString(objs[1], radix), FALSE)

LeftShift(value) ==
    Method("leftShift", <<value>>, leftShift(objs[1], value), TRUE)

Not == Method("not", <<>>, not(objs[1]), TRUE)

\* A call of and, or or xor: the argument is objs[1] itself (self), or
\* another instance.
Binary(op, self, bitArray, out) ==
    /\ Live
    /\ Len(objs) >= 1
    /\ steps < MaxSteps
    /\ objs' = IF self THEN <<out.obj, out.obj>> ELSE <<out.obj, out.arg>>
    /\ ret' = out.ret
    /\ call' = [op |-> op, args |-> <<self>>]
    /\ pre' = <<objs[1], bitArray>>
    /\ steps' = IF out.ret.kind = "return" THEN steps + 1 ELSE steps
    /\ UNCHANGED given

And ==
    \/ Binary("and", TRUE, objs[1], and(objs[1], objs[1]))
    \/ \E b \in Operands : Binary("and", FALSE, b, and(objs[1], b))

Or ==
    \/ Binary("or", TRUE, objs[1], or(objs[1], objs[1]))
    \/ \E b \in Operands : Binary("or", FALSE, b, or(objs[1], b))

Xor ==
    \/ Binary("xor", TRUE, objs[1], xor(objs[1], objs[1]))
    \/ \E b \in Operands : Binary("xor", FALSE, b, xor(objs[1], b))

\* The number of words of objs[1].
WordCount == IF Len(objs) >= 1 THEN Len(objs[1].wordsArray) ELSE 0

Next ==
    \/ \E base \in Bases : Construct(base)
    \/ \E index \in GetIndices : Get(index)
    \/ \E index \in Indices, value \in BOOLEAN : Set(index, value)
    \/ \E newValueArray \in ArraySamples(WordCount) : SetValue(newValueArray)
    \/ Weight
    \/ ToString(DefaultRadix)
    \/ \E value \in ShiftValues : LeftShift(value)
    \/ Not
    \/ And
    \/ Or
    \/ Xor

Spec == Init /\ [][Next]_vars

(***************************************************************************)
(* The text encoding: toString in every radix, and parse of what toString  *)
(* wrote, on instances loaded by setValue.                                 *)
(***************************************************************************)
CodecInstances ==
    UNION {{setValue(constructor(JsInt(n)).new[1], a).obj :
               a \in ArraysOf(CeilDiv(n, INT_LENGTH))} :
           n \in {0, 32, 40, 64}}

InitCodec ==
    /\ objs \in {<<ba>> : ba \in CodecInstances}
    /\ given = JsInt(objs[1].length)
    /\ call = [op |-> "none", args |-> <<>>]
    /\ pre = <<>>
    /\ ret = Return("none")
    /\ steps = 0

\* BitArray.parse(text, radix) of the text the last toString(radix) returned
Parse ==
    /\ call.op = "toString"
    /\ LET out == parse(ret.value, call.args[1])
       IN  /\ objs' = <<objs[1]>> \o out.new
           /\ ret' = out.ret
    /\ call' = [op |-> "parse", args |-> <<ret.value, call.args[1]>>]
    /\ pre' = objs
    /\ UNCHANGED <<given, steps>>

NextCodec ==
    \/ \E radix \in Radixes : ToString(radix)
    \/ Parse

SpecCodec == InitCodec /\ [][NextCodec]_vars

(***************************************************************************)
(* The claims.                                                             *)
(***************************************************************************)
AllOnes == FromPair(Base - 1, Base - 1)

\* x is an integer in 0 .. 2^32 - 1.
IsUint32(x) == x # NaN /\ x = ToUint32(x)

\* Bit k (0 is the least significant) of the Number x.
Bit(x, k) == (x[(k \div HalfBits) + 1] \div (2 ^ (k % HalfBits))) % 2

\* The number of 1 digits of the binary numeral of n >= 0.
RECURSIVE OnesOf(_)
OnesOf(n) == IF n = 0 THEN 0 ELSE (n % 2) + OnesOf(n \div 2)

\* The number of 1 bits of the words from the k-th on (words are in
\* 0 .. 2^32 - 1: their bits are those of the two low limbs).
RECURSIVE PopCountFrom(_, _)
PopCountFrom(wordsArray, k) ==
    IF k > Len(wordsArray) THEN 0
    ELSE OnesOf(wordsArray[k][1]) + OnesOf(wordsArray[k][2])
         + PopCountFrom(wordsArray, k + 1)

\* The number of 1 bits of the words.
PopCount(wordsArray) == PopCountFrom(wordsArray, 1)

\* Bit j of the words read as one unsigned integer, word 0 least significant.
BigBit(wordsArray, j) == Bit(wordsArray[(j \div WordBits) + 1], j % WordBits)

Mutators == {"set", "setValue", "leftShift", "not", "and", "or", "xor"}

Binaries == {"and", "or", "xor"}

\* C1 (as claimed): the constructor returns exactly for an integer
\* base >= 0, making ceil(base / 32) words that are all zero, and throws
\* InvalidLength for every other base.
C1_NonNegativeIntegerOnly ==
    call.op = "constructor" =>
        IF IsInteger(call.args[1]) /\ call.args[1].n >= 0
        THEN /\ ret = Return("new")
             /\ Len(objs) = 1
             /\ objs[1].length = call.args[1].n
             /\ objs[1].wordsArray =
                    Fill(Zero, CeilDiv(call.args[1].n, WordBits))
        ELSE ret = Throw("InvalidLength") /\ Len(objs) = 0

\* C2 (as claimed): for an instance whose length is a multiple of 32, 0
\* included, parse of what toString wrote in a radix, in that radix,
\* returns an instance with the same word array.
C2_RoundTrip ==
    (/\ call.op = "parse"
     /\ objs[1].length >= 0
     /\ objs[1].length % WordBits = 0
     /\ call.args[1] = toString(objs[1], call.args[2]).ret.value)
    => /\ ret = Return("new")
       /\ Len(objs) = 2
       /\ objs[2].wordsArray = objs[1].wordsArray

\* The round trip of C2 for the instances that have a word.
C2_RoundTripOfWords ==
    (/\ call.op = "parse"
     /\ Len(objs[1].wordsArray) >= 1
     /\ call.args[1] = toString(objs[1], call.args[2]).ret.value)
    => /\ ret = Return("new")
       /\ Len(objs) = 2
       /\ objs[2].wordsArray = objs[1].wordsArray
       /\ objs[2].length = Len(objs[1].wordsArray) * WordBits

\* C3 (as claimed): leftShift(0) returns this and changes nothing, on an
\* instance of any length >= 0.
C3_ShiftByZeroAlwaysReturns ==
    (call.op = "leftShift" /\ call.args[1] = 0 /\ pre[1].length >= 0)
    => ret = Return("this") /\ objs[1] = pre[1]

\* C3 (amended): leftShift(0) changes nothing; it returns this on an
\* instance that has a word, and throws ShiftOverflow on one that has none.
C3_ShiftByZero ==
    (call.op = "leftShift" /\ call.args[1] = 0)
    => /\ objs[1] = pre[1]
       /\ ret = IF Len(pre[1].wordsArray) >= 1
                THEN Return("this") ELSE Throw("ShiftOverflow")

C3_Witness ==
    /\ call.op = "leftShift"
    /\ call.args[1] = 0
    /\ ret = Return("this")
    /\ objs[1].wordsArray = <<FromPair(32768, 1), AllOnes>>

\* C4: leftShift(n), for 0 <= n <= 32 * words - 1 on an instance that has
\* a word, leaves the words holding W * 2^n modulo 2^(32 * words), W being
\* the words before the call read as one unsigned integer: bit j of the
\* result is bit j - n of W for j >= n, and 0 below n.
C4_LeftShiftIsBigShift ==
    (/\ call.op = "leftShift"
     /\ Len(pre[1].wordsArray) >= 1
     /\ call.args[1] >= 0
     /\ call.args[1] <= Len(pre[1].wordsArray) * WordBits - 1)
    => /\ ret = Return("this")
       /\ objs[1].length = pre[1].length
       /\ Len(objs[1].wordsArray) = Len(pre[1].wordsArray)
       /\ \A i \in 1..Len(objs[1].wordsArray) : IsUint32(objs[1].wordsArray[i])
       /\ \A j \in 0..(Len(pre[1].wordsArray) * WordBits - 1) :
              BigBit(objs[1].wordsArray, j) =
                  IF j >= call.args[1]
                  THEN BigBit(pre[1].wordsArray, j - call.args[1]) ELSE 0

C4_Witness ==
    /\ call.op = "leftShift"
    /\ call.args[1] = 1
    /\ pre[1].length = 40
    /\ pre[1].wordsArray = <<FromPair(32768, 1), FromPair(32768, 1)>>
    /\ objs[1].wordsArray = <<FromInt(2), FromInt(3)>>

\* C5: a rejected mutating call changes nothing: set with an index outside
\* 0 .. length - 1 throws IndexOutOfRange, setValue with an array of another
\* size than the words throws LengthMismatch, and/or/xor with an argument
\* of another number of words throws LengthMismatch, leftShift(n) with
\* n > 32 * words - 1 throws ShiftOverflow, and each leaves the words and
\* the length of the receiver, and the argument, as they were.
C5_RejectedCallChangesNothing ==
    /\ (call.op = "set"
        /\ (call.args[1] < 0 \/ call.args[1] > pre[1].length - 1))
       => ret = Throw("IndexOutOfRange")
    /\ (call.op = "setValue" /\ Len(call.args[1]) # Len(pre[1].wordsArray))
       => ret = Throw("LengthMismatch")
    /\ (call.op \in Binaries
        /\ Len(pre[1].wordsArray) # Len(pre[2].wordsArray))
       => ret = Throw("LengthMismatch")
    /\ (call.op = "leftShift"
        /\ call.args[1] > Len(pre[1].wordsArray) * WordBits - 1)
       => ret = Throw("ShiftOverflow")
    /\ (call.op \in Mutators /\ ret.kind = "throw")
       => /\ objs[1] = pre[1]
          /\ call.op \in Binaries => objs[2] = pre[2]

C5_Witness ==
    /\ call.op = "xor"
    /\ ret = Throw("LengthMismatch")
    /\ objs[1].wordsArray = <<AllOnes>>
    /\ Len(objs[2].wordsArray) = 2

\* C6: set(i, b) with 0 <= i < length returns, and after it get(i) is b,
\* get(j) is what it was for every other valid j, and every bit of every
\* word but bit i mod 32 of word i div 32 is what it was.
C6_SetChangesOneBit ==
    /\ (call.op = "set" /\ call.args[1] >= 0 /\ call.args[1] < pre[1].length)
       => ret.kind = "return"
    /\ (call.op = "set" /\ ret.kind = "return")
       => /\ objs[1].length = pre[1].length
          /\ Len(objs[1].wordsArray) = Len(pre[1].wordsArray)
          /\ bitsGetter(objs[1], call.args[1]).ret.kind = "return"
          /\ bitsGetter(objs[1], call.args[1]).ret.value = call.args[2]
          /\ \A j \in 0..(objs[1].length - 1) :
                 j # call.args[1] =>
                     bitsGetter(objs[1], j).ret = bitsGetter(pre[1], j).ret
          /\ \A i \in 1..Len(objs[1].wordsArray) :
                 \A k \in 0..(NumBits - 1) :
                     (i - 1) * WordBits + k # call.args[1] =>
                         Bit(objs[1].wordsArray[i], k) = Bit(pre[1].wordsArray[i], k)

C6_Witness ==
    /\ call.op = "set"
    /\ call.args = <<31, FALSE>>
    /\ pre[1].wordsArray = <<FromPair(32768, 1), AllOnes>>
    /\ objs[1].wordsArray = <<FromInt(1), AllOnes>>

\* C7: weight() returns the number of 1 bits of the words, the bits beyond
\* length included, and changes nothing; so a fresh instance weighs 0, and
\* setting a bit that was clear adds 1 to the weight.
C7_WeightIsPopCount ==
    /\ \A i \in 1..Len(objs) :
           LET out == weight(objs[i])
           IN  /\ out.ret = Return(FromInt(PopCount(objs[i].wordsArray)))
               /\ out.obj = objs[i]
    /\ call.op = "weight"
       => /\ ret = Return(FromInt(PopCount(pre[1].wordsArray)))
          /\ objs[1] = pre[1]
    /\ (call.op = "constructor" /\ ret.kind = "return")
       => weight(objs[1]).ret = Return(Zero)
    /\ (/\ call.op = "set"
        /\ ret.kind = "return"
        /\ call.args[2]
        /\ ~bitsGetter(pre[1], call.args[1]).ret.value)
       => weight(objs[1]).ret.value =
              Add(weight(pre[1]).ret.value, FromInt(1))

C7_Witness ==
    /\ call.op = "weight"
    /\ pre[1].length = 40
    /\ pre[1].wordsArray = <<AllOnes, FromPair(32768, 1)>>
    /\ ret = Return(FromInt(34))

\* C8: in every state the length of the receiver is the length given to
\* its constructor, every instance has ceil(length / 32) words, each an
\* integer in 0 .. 2^32 - 1, and a call of get, weight or toString leaves
\* the receiver as it was.
C8_LengthAndWordsInvariant ==
    /\ Len(objs) >= 1 => objs[1].length = given.n
    /\ \A i \in 1..Len(objs) :
           /\ Len(objs[i].wordsArray) = CeilDiv(objs[i].length, WordBits)
           /\ \A w \in 1..Len(objs[i].wordsArray) : IsUint32(objs[i].wordsArray[w])
    /\ call.op \in Reads => objs[1] = pre[1]

C8_Witness ==
    /\ call.op = "not"
    /\ given = JsInt(40)
    /\ pre[1].wordsArray = <<AllOnes, Zero>>
    /\ objs[1].wordsArray = <<Zero, AllOnes>>

\* C9: not() returns this and replaces every word by its 32-bit
\* complement, the bits beyond length included, so that the weight becomes
\* 32 * words less the weight before; not() once more restores the words.
C9_NotComplementsEveryWord ==
    call.op = "not"
    => /\ ret = Return("this")
       /\ objs[1].length = pre[1].length
       /\ Len(objs[1].wordsArray) = Len(pre[1].wordsArray)
       /\ \A i \in 1..Len(objs[1].wordsArray) :
              /\ IsUint32(objs[1].wordsArray[i])
              /\ \A k \in 0..(WordBits - 1) :
                     Bit(objs[1].wordsArray[i], k) = 1 - Bit(pre[1].wordsArray[i], k)
       /\ weight(objs[1]).ret.value =
              FromInt(Len(pre[1].wordsArray) * WordBits
                      - PopCount(pre[1].wordsArray))
       /\ not(objs[1]).obj = pre[1]

C9_Witness ==
    /\ call.op = "not"
    /\ pre[1] = [length |-> 8, wordsArray |-> <<Zero>>]
    /\ objs[1].wordsArray = <<AllOnes>>
    /\ weight(objs[1]).ret.value = FromInt(32)

\* The Boolean operator of and, or and xor on two bits.
BitOp(op, x, y) ==
    IF op = "and" THEN x * y
    ELSE IF op = "or" THEN (IF x + y > 0 THEN 1 ELSE 0)
    ELSE (x + y) % 2

\* C10: and, or and xor with an argument of as many words as the receiver,
\* whatever the two lengths, return this and set every bit of every word
\* of the receiver to the operator of the two bits, those beyond length
\* included; the lengths, and the words of an argument that is another
\* instance, stay as they were.
C10_BinaryWordByWord ==
    (call.op \in Binaries /\ Len(pre[1].wordsArray) = Len(pre[2].wordsArray))
    => /\ ret = Return("this")
       /\ objs[1].length = pre[1].length
       /\ Len(objs[1].wordsArray) = Len(pre[1].wordsArray)
       /\ \A i \in 1..Len(objs[1].wordsArray) :
              /\ IsUint32(objs[1].wordsArray[i])
              /\ \A k \in 0..(WordBits - 1) :
                     Bit(objs[1].wordsArray[i], k) =
                         BitOp(call.op, Bit(pre[1].wordsArray[i], k),
                                        Bit(pre[2].wordsArray[i], k))
       /\ objs[2] = IF call.args[1] THEN objs[1] ELSE pre[2]

C10_Witness ==
    /\ call.op = "and"
    /\ ~call.args[1]
    /\ pre[1].length = 8
    /\ pre[2].length = 16
    /\ pre[1].wordsArray = <<AllOnes>>
    /\ pre[2].wordsArray = <<FromPair(43690, 21845)>>
    /\ objs[1].wordsArray = <<FromPair(43690, 21845)>>

====
